---- MODULE Spec2Model ----
(***************************************************************************)
(* Model of bybit_bulk_downloader/downloader.py: the BybitBulkDownloader   *)
(* class, its archive pipeline (run_download -> _get_url_from_bybit ->     *)
(* make_chunks -> ThreadPoolExecutor.map(_download)) and the direct        *)
(* download(url) entry point.                                              *)
(*                                                                         *)
(* Strings that the code splits, joins or rewrites are kept structured:    *)
(* a URL or a path is the sequence of its "/"-separated segments, and a    *)
(* segment is the sequence of its tokens (a stem and its suffixes), so     *)
(* that split("/"), insert, "/".join and replace(".gz", "") are computed   *)
(* and not assumed.                                                        *)
(***************************************************************************)
EXTENDS Integers, Sequences, FiniteSets, TLC

\* ------------------------------------------------------------------ bounds

\* BybitBulkDownloader._CHUNK_SIZE is 20 in the source (downloader.py:26);
\* the model runs the same batching with a smaller chunk so that several
\* batches happen within the explored state space.
_CHUNK_SIZE == 2

\* ThreadPoolExecutor() takes max_workers = min(32, cpu_count + 4), a
\* property of the machine; the model draws it from 1..MaxWorkers.
MaxWorkers == 3

\* Number of operations (run_download / download) invoked on one instance.
MaxRuns == 2

\* Number of GETs of one behaviour that are answered by something else than
\* a complete gzip archive.
MaxFaults == 2

\* Resolution of the clock of the funding-rate windows: instants per day
\* (funding is settled every eight hours)
SlotsPerDay == 3

\* "Today" lies at most this many days after the start date of the
\* funding-rate history
MaxNowDays == 125

\* Length of the list handed to make_chunks, and its chunk size
MaxLen == 5
MaxN == 3

\* Rows of the frame the kline merge sorts, and their distinct start times
MaxRows == 3
MaxKey == 2

\* Days of kline history between 2019-01-01 and today
MaxDays == 2

\* ------------------------------------------------------- program constants

\* int(datetime(2019, 1, 1).timestamp()), the start time of the initial
\* kline download, in UTC
Epoch2019 == 1546300800

\* timedelta(days=60) in generate_dates_until_today
WindowDays == 60

\* timedelta(days=1) in generate_dates_until_today
NextStartDays == 1

\* limit=1000 bars of one get_kline call
KlineLimit == 1000

\* prefix_start = 3 in _download
prefix_start == 3

\* _BYBIT_DATA_DOWNLOAD_BASE_URL = "https://public.bybit.com", as split("/")
\* sees it: "https:", "", "public.bybit.com"
_BYBIT_DATA_DOWNLOAD_BASE_URL == << <<"https:">>, <<>>, <<"public.bybit.com">> >>

\* The _DATA_TYPE tuple of the class
_DATA_TYPE ==
    {"kline_for_metatrader4", "premium_index", "spot_index", "trading",
     "fundingRate", "klines"}

\* ------------------------------------------------------------ environment

\* data_type arguments the constructor is called with
DataTypeArgs == {"trading", "kline_for_metatrader4", "spot", "invalid_type"}

\* destination_dir arguments: the default "." and a two-level directory
DestinationArgs == { << <<".">> >>, << <<"tmp">>, <<"dl">> >> }

\* A file name of the remote tree: stem + ".csv" + ".gz"
Archive(stem) == <<stem, ".csv", ".gz">>

\* url = base + "/" + data_type + "/"
RootUrl(dt) == _BYBIT_DATA_DOWNLOAD_BASE_URL \o << <<dt>> >>

\* The remote static file tree: the anchors (hrefs) of the listing page at
\* `page`. A page that does not exist has no anchors.
Anchors(page) ==
    IF page = RootUrl("trading")
        THEN << <<"BTCUSDT">>, <<"ETHUSDT">> >>
    ELSE IF page = RootUrl("trading") \o << <<"BTCUSDT">> >>
        THEN << Archive("BTCUSDT2023-01-01"), Archive("BTCUSDT2023-01-02") >>
    ELSE IF page = RootUrl("trading") \o << <<"ETHUSDT">> >>
        THEN << Archive("ETHUSDT2023-01-01") >>
    ELSE IF page = RootUrl("spot")
        THEN << <<"BTCUSDT">> >>
    ELSE IF page = RootUrl("spot") \o << <<"BTCUSDT">> >>
        THEN << Archive("BTCUSDT_2022-11-10") >>
    ELSE IF page = RootUrl("kline_for_metatrader4")
        THEN << <<"ADAUSDT">> >>
    ELSE IF page = RootUrl("kline_for_metatrader4") \o << <<"ADAUSDT">> >>
        THEN << <<"2022">>, <<"2023">> >>
    ELSE IF page = RootUrl("kline_for_metatrader4") \o << <<"ADAUSDT">>, <<"2022">> >>
        THEN << Archive("ADAUSDT_15_2022-09-01_2022-09-30") >>
    ELSE IF page = RootUrl("kline_for_metatrader4") \o << <<"ADAUSDT">>, <<"2023">> >>
        THEN << Archive("ADAUSDT_15_2023-01-01_2023-01-31") >>
    ELSE << >>

\* URLs a caller passes to download(url) directly: the archive files that
\* the remote tree holds under the instance's data type.
DirectUrls(dt) ==
    IF dt = "trading"
        THEN { RootUrl(dt) \o << <<"BTCUSDT">>, Archive("BTCUSDT2023-01-01") >> }
    ELSE IF dt = "spot"
        THEN { RootUrl(dt) \o << <<"BTCUSDT">>, Archive("BTCUSDT_2022-11-10") >> }
    ELSE IF dt = "kline_for_metatrader4"
        THEN { RootUrl(dt) \o << <<"ADAUSDT">>, <<"2022">>,
                                 Archive("ADAUSDT_15_2022-09-01_2022-09-30") >>,
               RootUrl(dt) \o << <<"ADAUSDT">>, <<"2023">>,
                                 Archive("ADAUSDT_15_2023-01-01_2023-01-31") >> }
    ELSE { }

\* The uncompressed content the server publishes at an archive URL: a static
\* file server answers one URL with one content, named here by the stem of
\* the file name.
ContentOf(url) == url[Len(url)][1]

\* gzip.compress(c): the bytes of a complete gzip member holding c
Gzip(c) == [kind |-> "gzip", data |-> c, complete |-> TRUE]

\* The first bytes of Gzip(c): a truncated transfer
Truncated(c) == [kind |-> "gzip", data |-> c, complete |-> FALSE]

\* An HTML error page
ErrorPage == [kind |-> "html", data |-> "error", complete |-> TRUE]

\* An empty file
Empty == [kind |-> "plain", data |-> "", complete |-> TRUE]

\* Plain (decompressed) bytes
Plain(c) == [kind |-> "plain", data |-> c, complete |-> TRUE]

\* What is left of c when the archive ends early
Partial(c) == [kind |-> "plain", data |-> c, complete |-> FALSE]

\* Responses requests.get returns for an archive URL: the archive, the
\* archive cut short, or an error page with a 404 status
Responses(url) ==
    { [status |-> 200, body |-> Gzip(ContentOf(url))],
      [status |-> 200, body |-> Truncated(ContentOf(url))],
      [status |-> 404, body |-> ErrorPage] }

NoResponse == [status |-> 0, body |-> Empty]

IsGood(r) == r.status = 200 /\ r.body.kind = "gzip" /\ r.body.complete

\* ------------------------------------------------------------ pure helpers

Min(a, b) == IF a < b THEN a ELSE b

RECURSIVE Flatten(_)
\* Concatenation of a sequence of sequences
Flatten(ss) == IF ss = << >> THEN << >> ELSE Head(ss) \o Flatten(Tail(ss))

\* make_chunks with a step and slice of n + 1 instead of n
make_chunks_StepOff(lst, n) ==
    [k \in 1..((Len(lst) + n) \div (n + 1)) |->
        SubSeq(lst, (k - 1) * (n + 1) + 1, Min(k * (n + 1), Len(lst)))]

\* make_chunks that drops a final chunk shorter than n
make_chunks_DropTail(lst, n) ==
    [k \in 1..(Len(lst) \div n) |-> SubSeq(lst, (k - 1) * n + 1, k * n)]

\* make_chunks(lst, n): [lst[i : i + n] for i in range(0, len(lst), n)]
make_chunks(lst, n) ==
    [k \in 1..((Len(lst) + n - 1) \div n) |->
        SubSeq(lst, (k - 1) * n + 1, Min(k * n, Len(lst)))]

RECURSIVE YearLinks(_, _)
\* The inner loop of _get_url_from_bybit for kline_for_metatrader4:
\*   for link_year in ...: link_sym += link_year.get("href"); append(link_sym)
\* link_sym is not reset between two years of one symbol.
YearLinks(link_sym, years) ==
    IF years = << >> THEN << >>
    ELSE LET next_sym == link_sym \o << Head(years) >>
         IN  << next_sym >> \o YearLinks(next_sym, Tail(years))

\* BeautifulSoup(requests.get(page).text, "html.parser").find_all("a"):
\* the status of the response is never looked at, and the body of a page in
\* `bad` (answered with a non-success status) is an error page without
\* anchors.
Soup(page, bad) == IF page \in bad THEN << >> ELSE Anchors(page)

\* symbol_list of _get_url_from_bybit
SymbolList(dt, bad) ==
    LET url == RootUrl(dt)
        links == Soup(url, bad)
    IN  Flatten([i \in 1..Len(links) |->
            IF dt = "kline_for_metatrader4"
                THEN YearLinks(<< links[i] >>, Soup(url \o << links[i] >>, bad))
                ELSE << << links[i] >> >>])

\* download_list of _get_url_from_bybit: url + sym + href for every anchor
\* of every page url + sym
DownloadList(dt, bad) ==
    LET url == RootUrl(dt)
        syms == SymbolList(dt, bad)
    IN  Flatten([i \in 1..Len(syms) |->
            LET files == Soup(url \o syms[i], bad)
            IN  [j \in 1..Len(files) |-> url \o syms[i] \o << files[j] >>]])

\* The listing pages of the remote tree that a walk for dt requests
ListingPages(dt) ==
    LET url == RootUrl(dt)
        links == Anchors(url)
        syms == SymbolList(dt, {})
    IN  { page \in {url} \cup {url \o << links[i] >> : i \in 1..Len(links)}
                         \cup {url \o syms[i] : i \in 1..Len(syms)} :
            Anchors(page) # << >> }

\* parts.insert(4, "bybit_data"): the namespace segment one level too deep
Parts_InsertOff(url) ==
    LET i == Min(4, Len(url))
    IN  SubSeq(url, 1, i) \o << <<"bybit_data">> >> \o SubSeq(url, i + 1, Len(url))

\* parts = url.split("/"); parts.insert(3, "bybit_data")
Parts(url) ==
    LET i == Min(3, Len(url))
    IN  SubSeq(url, 1, i) \o << <<"bybit_data">> >> \o SubSeq(url, i + 1, Len(url))

\* A filepath made of the file name only: destination_dir + "/" + parts[-1]
FilePath_Basename(dest, url) == dest \o << url[Len(url)] >>

\* filepath = str(destination_dir) + "/" + "/".join(parts[prefix_start:])
FilePath(dest, url) ==
    dest \o SubSeq(Parts(url), prefix_start + 1, Len(Parts(url)))

\* os.path.dirname(filepath)
DirName(path) == SubSeq(path, 1, Len(path) - 1)

\* filepath.replace(".gz", ""): every occurrence of ".gz" is removed
ReplaceGz(path) ==
    [i \in 1..Len(path) |-> SelectSeq(path[i], LAMBDA tok : tok # ".gz")]

\* The directories os.makedirs(dir) leaves in place: dir and its ancestors
Ancestors(dir) == { SubSeq(dir, 1, k) : k \in 1..Len(dir) }

\* A plain copy instead of a decompression (open() where gzip.open() is meant)
Gunzip_PlainCopy(bytes) == [out |-> bytes, exc |-> "none"]

\* What gzip decompression of a file's bytes writes, and how it ends:
\* a complete member gives its content; a truncated one gives what was
\* decoded before EOFError; bytes that are no gzip stream give nothing and
\* BadGzipFile; an empty file reads as an empty stream.
Gunzip(bytes) ==
    IF bytes = Empty THEN [out |-> Empty, exc |-> "none"]
    ELSE IF bytes.kind = "gzip" /\ bytes.complete
        THEN [out |-> Plain(bytes.data), exc |-> "none"]
    ELSE IF bytes.kind = "gzip"
        THEN [out |-> Partial(bytes.data), exc |-> "EOFError"]
    ELSE [out |-> Empty, exc |-> "BadGzipFile"]

\* strftime("%Y-%m-%d") of a datetime: its date, the time of day is dropped
Strftime(t) == t \div SlotsPerDay

\* datetime.strptime(d, "%Y-%m-%d"): midnight of the date
Strptime(d) == d * SlotsPerDay

RECURSIVE DatesFrom(_, _)
\* The loop of generate_dates_until_today from start_date up to end_date
\* (datetimes, counted in slots from 2021-01-01 00:00): the output pairs
\* are formatted dates.
DatesFrom(start_date, end_date) ==
    IF start_date > end_date THEN << >>
    ELSE LET after == start_date + WindowDays * SlotsPerDay
             next_date == IF after > end_date THEN end_date ELSE after
         IN  << [from |-> Strftime(start_date), to |-> Strftime(next_date)] >>
                 \o DatesFrom(next_date + NextStartDays * SlotsPerDay, end_date)

\* generate_dates_until_today(2021, 1) when datetime.today() is `today`
generate_dates_until_today(today) == DatesFrom(0, today)

\* The windows _download_fundingrate requests for a symbol: each pair of
\* dates parsed back to timestamps
FundingWindows(today) ==
    LET dates == generate_dates_until_today(today)
    IN  [i \in 1..Len(dates) |->
            [startTime |-> Strptime(dates[i].from),
             endTime |-> Strptime(dates[i].to)]]

\* The rows a kline frame can hold: a start time and the rest of the bar
Rows == [startTime : 1..MaxKey, closePrice : {"a", "b"}]

\* df.sort_values("startTime"): the orders the sort may leave the rows in.
\* The default sort is not stable, so rows with equal start times may come
\* out in any order.
SortValues(df) ==
    LET n == Len(df)
        perms == {f \in [1..n -> 1..n] : \A i, j \in 1..n : i # j => f[i] # f[j]}
    IN  { [i \in 1..n |-> df[f[i]]] : f \in
            {g \in perms : \A i, j \in 1..n :
                i < j => df[g[i]].startTime <= df[g[j]].startTime} }

\* df.drop_duplicates(subset=["startTime"]): keep="first", a row stays when
\* no earlier row of the frame has its start time
drop_duplicates(df) ==
    LET keep(i) == \A j \in 1..(i - 1) : df[j].startTime # df[i].startTime
        idx == {i \in 1..Len(df) : keep(i)}
        Rank(i) == Cardinality({j \in idx : j <= i})
    IN  [r \in 1..Cardinality(idx) |->
            df[CHOOSE i \in idx : Rank(i) = r]]

\* The merged frames the merge step of _download_klines may write for the
\* concatenation df of the files read
MergeResults(df) == { drop_duplicates(sorted) : sorted \in SortValues(df) }

\* The directory of a symbol's kline files
KlineDir(dest, category, symbol) ==
    dest \o << <<"bybit_data">>, <<"klines">>, <<category>>, <<symbol>> >>

\* save_path of a kline window: .../klines/{category}/{symbol}/{ts}.csv with
\* ts = str(int(start_time.timestamp())), start_time counted in minutes from
\* 2019-01-01 00:00
SavePath(dest, category, symbol, start_time) ==
    KlineDir(dest, category, symbol)
        \o << <<ToString(Epoch2019 + start_time * 60), ".csv">> >>

\* The merged file of a symbol: .../{symbol}/{interval}.csv
MergedPath(dest, category, symbol, interval) ==
    KlineDir(dest, category, symbol) \o << <<interval, ".csv">> >>

\* The output of the funding-rate path: .../fundingRate/{sym}.csv
FundingDir(dest) == dest \o << <<"bybit_data">>, <<"fundingRate">> >>
FundingPath(dest, symbol) == FundingDir(dest) \o << <<symbol, ".csv">> >>

RECURSIVE MinutesFrom(_, _, _)
\* The loop of generate_dates_by_minutes_limited: current_date, stepped by
\* interval_minutes while it is not after end_date
MinutesFrom(current_date, end_date, interval_minutes) ==
    IF current_date > end_date THEN << >>
    ELSE << current_date >>
            \o MinutesFrom(current_date + interval_minutes, end_date, interval_minutes)

\* .date() of a datetime counted in minutes, as a datetime at midnight
DateOf(t) == (t \div 1440) * 1440

\* generate_dates_by_minutes_limited(start_date, interval_minutes) when
\* datetime.today() is `today`
generate_dates_by_minutes_limited(start_date, interval_minutes, today) ==
    MinutesFrom(DateOf(start_date), today, interval_minutes)

\* A CSV file holding the rows `rows`
Csv(rows) == [kind |-> "csv", data |-> rows, complete |-> TRUE]

\* ------------------------------------------------------------------ state

VARIABLES
    data_type_arg,      \* the data_type the constructor is called with
    destination_arg,    \* the destination_dir the constructor is called with
    max_workers,        \* workers a ThreadPoolExecutor() gets on this machine
    _data_type,         \* self._data_type ("unset" before construction)
    _destination_dir,   \* self._destination_dir
    mainPc,             \* position of the calling thread
    mode,               \* operation in progress or last finished: run / direct
    runs,               \* operations invoked so far
    raised,             \* exception the last operation raised to its caller
    tasks,              \* URLs of the current operation, in submission order
    chunk,              \* index of the chunk the run loop is at
    queue,              \* the executor's work queue (task indices, FIFO)
    pc,                 \* position of each task inside _download
    resp,               \* the response each task got from requests.get
    result,             \* how each task ended: the future's result/exception
    calls,              \* requests.get calls of each task: (url, params)
    log,                \* the lines each task printed
    files,              \* the filesystem: path -> bytes
    dirs,               \* the directories that exist
    faults,             \* GETs answered by something else than a good archive
    bad_pages,          \* listing pages of the current walk answered non-2xx
    call,               \* a helper function under test and its arguments
    ret,                \* what the helper returned
    s_list,             \* the symbols get_tickers returned to this run
    sym,                \* index in s_list of the symbol the run is at
    win,                \* index of the funding-rate window the run is at
    listing,            \* files of os.listdir the merge has still to read
    df,                 \* rows of the frame being built (funding, merge)
    interval            \* the interval argument of the current run_download

vars ==
    <<data_type_arg, destination_arg, max_workers, _data_type, _destination_dir,
      mainPc, mode, runs, raised, tasks, chunk, queue, pc, resp, result, calls,
      log, files, dirs, faults, bad_pages, call, ret, s_list, sym, win,
      listing, df, interval>>

argVars == <<data_type_arg, destination_arg, max_workers>>
fnVars == <<call, ret>>
apiVars == <<s_list, sym, win, listing, df, interval>>
envVars == <<argVars, fnVars, apiVars>>
selfVars == <<_data_type, _destination_dir>>

\* No API-driven run has been started
ApiIdle ==
    /\ s_list = << >>
    /\ sym = 0
    /\ win = 0
    /\ listing = {}
    /\ df = {}
    /\ interval = "1"

\* No helper is under test
NoCall == [fn |-> "none"]
NoRet == [done |-> FALSE, value |-> << >>]

Tasks == 1..Len(tasks)

\* Positions of a task that a worker thread (or the caller) is executing
ActivePcs == {"check_dir", "make_dir", "get", "write", "decompress", "remove"}
SettledPcs == {"done", "failed"}

Running == {t \in Tasks : pc[t] \in ActivePcs}

\* The paths of task t, as _download computes them
filepath(t) == FilePath(_destination_dir, tasks[t])
filedir(t) == DirName(filepath(t))
outpath(t) == ReplaceGz(filepath(t))

\* The chunks of the current run: make_chunks(download_list, _CHUNK_SIZE),
\* as indices into tasks
Chunks == make_chunks([t \in Tasks |-> t], _CHUNK_SIZE)

ChunkTasks(k) == {Chunks[k][i] : i \in 1..Len(Chunks[k])}

\* An executor that is shut down without waiting: shutdown(wait=False)
ChunkSettled_NoWait(k) == TRUE

\* Leaving "with ThreadPoolExecutor() as executor": shutdown(wait=True)
\* returns once every submitted task has finished, with a result or with an
\* exception.
ChunkSettled(k) == \A t \in ChunkTasks(k) : pc[t] \in SettledPcs

\* The results of executor.map() consumed (list(executor.map(...))): the
\* exception of the first failed task of the chunk is re-raised
RaisedByMap_Consumed(k) ==
    LET failed == {i \in 1..Len(Chunks[k]) : pc[Chunks[k][i]] = "failed"}
    IN  IF failed = {} THEN "none"
        ELSE result[Chunks[k][CHOOSE i \in failed : \A j \in failed : i <= j]]

\* executor.map() is never iterated, so no exception of a task is re-raised
\* in the calling thread.
RaisedByMap(k) == "none"

Put(fs, path, bytes) ==
    [p \in DOMAIN fs \cup {path} |-> IF p = path THEN bytes ELSE fs[p]]

Remove(fs, path) == [p \in DOMAIN fs \ {path} |-> fs[p]]

\* ------------------------------------------------------------------- Init

Init ==
    /\ data_type_arg \in DataTypeArgs
    /\ destination_arg \in DestinationArgs
    /\ max_workers \in 1..MaxWorkers
    /\ _data_type = "unset"
    /\ _destination_dir = << >>
    /\ mainPc = "new"
    /\ mode = "none"
    /\ runs = 0
    /\ raised = "none"
    /\ tasks = << >>
    /\ chunk = 0
    /\ queue = << >>
    /\ pc = << >>
    /\ resp = << >>
    /\ result = << >>
    /\ calls = << >>
    /\ log = << >>
    /\ files = << >>
    /\ dirs = Ancestors(destination_arg)
    /\ faults = 0
    /\ bad_pages = {}
    /\ call = NoCall
    /\ ret = NoRet
    /\ ApiIdle

\* ---------------------------------------------------------------- actions

\* BybitBulkDownloader.__init__: stores its arguments; no check of data_type
Construct ==
    /\ mainPc = "new"
    /\ _destination_dir' = destination_arg
    /\ _data_type' = data_type_arg
    /\ mainPc' = "idle"
    /\ UNCHANGED <<envVars, bad_pages, mode, runs, raised, tasks, chunk, queue, pc, resp,
                   result, calls, log, files, dirs, faults>>

\* The per-operation state of n fresh tasks
ResetTasks(urls, firstPc, firstLog) ==
    /\ tasks' = urls
    /\ pc' = [t \in 1..Len(urls) |-> firstPc]
    /\ resp' = [t \in 1..Len(urls) |-> NoResponse]
    /\ result' = [t \in 1..Len(urls) |-> "none"]
    /\ calls' = [t \in 1..Len(urls) |-> << >>]
    /\ log' = [t \in 1..Len(urls) |-> firstLog]
    /\ queue' = << >>

\* run_download(), archive branch, up to the call of _get_url_from_bybit
RunDownload ==
    /\ mainPc = "idle"
    /\ runs < MaxRuns
    /\ _data_type \notin {"fundingRate", "klines"}
    /\ mode' = "run"
    /\ runs' = runs + 1
    /\ raised' = "none"
    /\ mainPc' = "listing"
    /\ chunk' = 0
    /\ ResetTasks(<< >>, "new", {})
    /\ bad_pages' = {}
    /\ UNCHANGED <<envVars, selfVars, files, dirs, faults>>

\* The hand-over of download_list to the run loop: nothing to do for an
\* empty list, else the first chunk
HandOver(urls) ==
    /\ ResetTasks(urls, "new", {})
    /\ IF urls = << >>
          THEN mainPc' = "idle" /\ chunk' = 0
          ELSE mainPc' = "submit" /\ chunk' = 1

\* _get_url_from_bybit(): the listing GETs. Every page answers; or one page
\* answers with a non-success status, which the walk does not look at; or
\* a connection error of one of the GETs propagates out of run_download.
GetUrlFromBybit ==
    /\ mainPc = "listing"
    /\ \/ /\ HandOver(DownloadList(_data_type, {}))
          /\ UNCHANGED <<raised, faults, bad_pages>>
       \/ \E page \in ListingPages(_data_type) :
            /\ faults < MaxFaults
            /\ faults' = faults + 1
            /\ bad_pages' = {page}
            /\ HandOver(DownloadList(_data_type, {page}))
            /\ UNCHANGED raised
       \/ /\ faults < MaxFaults
          /\ faults' = faults + 1
          /\ raised' = "ConnectionError"
          /\ mainPc' = "idle"
          /\ UNCHANGED <<tasks, pc, resp, result, calls, log, queue, chunk,
                         bad_pages>>
    /\ UNCHANGED <<envVars, selfVars, mode, runs, files, dirs>>

\* with ThreadPoolExecutor() as executor: executor.map(self._download, chunk)
\* submits every item of the chunk to the executor's queue
SubmitChunk ==
    /\ mainPc = "submit"
    /\ queue' = Chunks[chunk]
    /\ pc' = [t \in Tasks |-> IF t \in ChunkTasks(chunk) THEN "queued" ELSE pc[t]]
    /\ mainPc' = "wait"
    /\ UNCHANGED <<envVars, selfVars, bad_pages, mode, runs, raised, tasks, chunk, resp,
                   result, calls, log, files, dirs, faults>>

\* The end of the with block: wait for the chunk, then go on with the next
\* chunk or return
ExitExecutor ==
    /\ mainPc = "wait"
    /\ ChunkSettled(chunk)
    /\ IF RaisedByMap(chunk) # "none"
          THEN mainPc' = "idle" /\ raised' = RaisedByMap(chunk) /\ UNCHANGED chunk
       ELSE IF chunk < Len(Chunks)
          THEN mainPc' = "submit" /\ chunk' = chunk + 1 /\ UNCHANGED raised
       ELSE mainPc' = "idle" /\ UNCHANGED <<chunk, raised>>
    /\ UNCHANGED <<envVars, selfVars, bad_pages, mode, runs, tasks, queue, pc, resp,
                   result, calls, log, files, dirs, faults>>

\* download(url) called directly: _download(url) runs in the calling thread
Download(url) ==
    /\ mainPc = "idle"
    /\ runs < MaxRuns
    /\ mode' = "direct"
    /\ runs' = runs + 1
    /\ raised' = "none"
    /\ mainPc' = "call"
    /\ chunk' = 0
    /\ ResetTasks(<< url >>, "check_dir", {"Downloading: url"})
    /\ bad_pages' = {}
    /\ UNCHANGED <<envVars, selfVars, files, dirs, faults>>

\* A task of the current operation is being executed: by a worker of the
\* executor (run_download waits in the with block) or by the caller itself
Executing == mainPc \in {"wait", "call"}

\* A download(url) that catches what _download raises (except: pass)
Settle_Swallow(t, exc) ==
    /\ pc' = [pc EXCEPT ![t] = IF exc = "none" THEN "done" ELSE "failed"]
    /\ result' = [result EXCEPT ![t] = IF exc = "none" THEN "ok" ELSE exc]
    /\ IF mode = "direct"
          THEN mainPc' = "idle" /\ raised' = "none"
          ELSE UNCHANGED <<mainPc, raised>>

\* Task t ends, with exception exc or ("none") normally. In a worker
\* thread the outcome is kept in the task's future; in a direct call the
\* exception is raised to the caller of download(url).
Settle(t, exc) ==
    /\ pc' = [pc EXCEPT ![t] = IF exc = "none" THEN "done" ELSE "failed"]
    /\ result' = [result EXCEPT ![t] = IF exc = "none" THEN "ok" ELSE exc]
    /\ IF mode = "direct"
          THEN mainPc' = "idle" /\ raised' = exc
          ELSE UNCHANGED <<mainPc, raised>>

Step(t, to) ==
    /\ pc' = [pc EXCEPT ![t] = to]
    /\ UNCHANGED <<result, mainPc, raised>>

\* A worker thread takes the next item of the queue: _download starts and
\* prints "Downloading: {url}"
StartTask(t) ==
    /\ mainPc = "wait"
    /\ queue # << >>
    /\ t = Head(queue)
    /\ Cardinality(Running) < max_workers
    /\ queue' = Tail(queue)
    /\ log' = [log EXCEPT ![t] = @ \cup {"Downloading: url"}]
    /\ Step(t, "check_dir")
    /\ UNCHANGED <<envVars, selfVars, bad_pages, mode, runs, tasks, chunk, resp, calls,
                   files, dirs, faults>>

\* if not os.path.exists(filedir):
CheckDir(t) ==
    /\ Executing
    /\ pc[t] = "check_dir"
    /\ IF filedir(t) \in dirs
          THEN /\ Step(t, "get")
               /\ log' = [log EXCEPT ![t] = @ \cup {"Downloading: filepath"}]
          ELSE /\ Step(t, "make_dir")
               /\ UNCHANGED log
    /\ UNCHANGED <<envVars, selfVars, bad_pages, mode, runs, tasks, chunk, queue, resp,
                   calls, files, dirs, faults>>

\*     os.makedirs(filedir): FileExistsError when filedir exists by now
MakeDir(t) ==
    /\ Executing
    /\ pc[t] = "make_dir"
    /\ IF filedir(t) \in dirs
          THEN /\ Settle(t, "FileExistsError")
               /\ UNCHANGED <<dirs, log>>
          ELSE /\ dirs' = dirs \cup Ancestors(filedir(t))
               /\ Step(t, "get")
               /\ log' = [log EXCEPT ![t] = @ \cup {"Downloading: filepath"}]
    /\ UNCHANGED <<envVars, selfVars, bad_pages, mode, runs, tasks, chunk, queue, resp,
                   calls, files, faults>>

\* response = requests.get(url, filepath): one call, whatever the status of
\* the response; a connection error raises
Get(t) ==
    /\ Executing
    /\ pc[t] = "get"
    /\ calls' = [calls EXCEPT ![t] =
                    Append(@, [url |-> tasks[t], params |-> filepath(t)])]
    /\ \/ \E r \in Responses(tasks[t]) :
            /\ IsGood(r)
            /\ resp' = [resp EXCEPT ![t] = r]
            /\ Step(t, "write")
            /\ UNCHANGED faults
       \/ \E r \in Responses(tasks[t]) :
            /\ ~IsGood(r)
            /\ faults < MaxFaults
            /\ faults' = faults + 1
            /\ resp' = [resp EXCEPT ![t] = r]
            /\ Step(t, "write")
       \/ /\ faults < MaxFaults
          /\ faults' = faults + 1
          /\ Settle(t, "ConnectionError")
          /\ UNCHANGED resp
    /\ UNCHANGED <<envVars, selfVars, bad_pages, mode, runs, tasks, chunk, queue, log,
                   files, dirs>>

\* with open(filepath, "wb") as file: the body is written as it came;
\* then print "Unzipped: {filepath}"
WriteBody(t) ==
    /\ Executing
    /\ pc[t] = "write"
    /\ files' = Put(files, filepath(t), resp[t].body)
    /\ log' = [log EXCEPT ![t] = @ \cup {"Unzipped: filepath"}]
    /\ Step(t, "decompress")
    /\ UNCHANGED <<envVars, selfVars, bad_pages, mode, runs, tasks, chunk, queue, resp,
                   calls, dirs, faults>>

\* with gzip.open(filepath) as gzip_file:
\*     with open(filepath.replace(".gz", ""), "wb") as decompressed_file:
\*         shutil.copyfileobj(gzip_file, decompressed_file)
\* The output is created (truncated) before the first byte is decoded.
Decompress(t) ==
    /\ Executing
    /\ pc[t] = "decompress"
    /\ IF filepath(t) \notin DOMAIN files \/ DirName(outpath(t)) \notin dirs
          THEN /\ Settle(t, "FileNotFoundError")
               /\ UNCHANGED files
          ELSE LET source == IF outpath(t) = filepath(t)
                                THEN Empty ELSE files[filepath(t)]
                   g == Gunzip(source)
               IN  /\ files' = Put(files, outpath(t), g.out)
                   /\ IF g.exc = "none"
                         THEN Step(t, "remove")
                         ELSE Settle(t, g.exc)
    /\ UNCHANGED <<envVars, selfVars, bad_pages, mode, runs, tasks, chunk, queue, resp,
                   calls, log, dirs, faults>>

\* os.remove(filepath); print "Deleted: {filepath}"
RemoveCompressed(t) ==
    /\ Executing
    /\ pc[t] = "remove"
    /\ IF filepath(t) \notin DOMAIN files
          THEN /\ Settle(t, "FileNotFoundError")
               /\ UNCHANGED <<files, log>>
          ELSE /\ files' = Remove(files, filepath(t))
               /\ log' = [log EXCEPT ![t] = @ \cup {"Deleted: filepath"}]
               /\ Settle(t, "none")
    /\ UNCHANGED <<envVars, selfVars, bad_pages, mode, runs, tasks, chunk, queue, resp,
                   calls, dirs, faults>>

Next ==
    \/ Construct
    \/ RunDownload
    \/ GetUrlFromBybit
    \/ SubmitChunk
    \/ ExitExecutor
    \/ \E url \in DirectUrls(_data_type) : Download(url)
    \/ \E t \in Tasks : StartTask(t)
    \/ \E t \in Tasks : CheckDir(t)
    \/ \E t \in Tasks : MakeDir(t)
    \/ \E t \in Tasks : Get(t)
    \/ \E t \in Tasks : WriteBody(t)
    \/ \E t \in Tasks : Decompress(t)
    \/ \E t \in Tasks : RemoveCompressed(t)

Spec == Init /\ [][Next]_vars

\* ------------------------------------------- download(url) with any URL

\* URLs a caller passes to download(url): the archives, a file published
\* uncompressed (no ".gz" in its name), and an archive with a second ".gz"
\* inside its name
FetchUrls(dt) ==
    DirectUrls(dt) \cup
        (IF dt = "trading"
            THEN { RootUrl(dt) \o << <<"BTCUSDT">>, <<"BTCUSDT2023-01-01", ".csv">> >>,
                   RootUrl(dt) \o << <<"BTCUSDT">>,
                                     <<"BTCUSDT2023-01-01", ".gz", ".csv", ".gz">> >> }
            ELSE { })

FetchNext ==
    \/ Construct
    \/ \E url \in FetchUrls(_data_type) : Download(url)
    \/ \E t \in Tasks : CheckDir(t)
    \/ \E t \in Tasks : MakeDir(t)
    \/ \E t \in Tasks : Get(t)
    \/ \E t \in Tasks : WriteBody(t)
    \/ \E t \in Tasks : Decompress(t)
    \/ \E t \in Tasks : RemoveCompressed(t)

FetchSpec == Init /\ [][FetchNext]_vars

\* ------------------------------------------------- the helpers on their own

\* The sequences over S of length 0..n
SeqsUpTo(S, n) == UNION { [1..k -> S] : k \in 0..n }

\* Archive URLs under one root: symbols, an optional year level, file names
ArchiveUrlSpace ==
    { RootUrl("trading") \o << <<symbol>> >> \o year \o << Archive(stem) >> :
        symbol \in {"BTCUSDT", "ETHUSDT"},
        year \in { << >>, << <<"2022">> >>, << <<"2023">> >> },
        stem \in {"2023-01-01", "2023-01-02"} }

\* Start times of kline windows in minutes: multiples of the window length of
\* interval "1" (generate_dates_by_minutes_limited)
WindowStarts == { k * KlineLimit : k \in 0..MaxLen }

\* The paths a _download(url) task writes: the archive and its decompression
DownloadTargets(dest, url) == { FilePath(dest, url), ReplaceGz(FilePath(dest, url)) }

\* The path a kline window task writes
KlineTargets(dest, start_time) == { SavePath(dest, "linear", "BTCUSDT", start_time) }

FnCalls ==
    [fn : {"make_chunks"}, lst : SeqsUpTo({"x", "y"}, MaxLen), n : 1..MaxN]
      \cup [fn : {"generate_dates_until_today"},
            today : 0..(MaxNowDays * SlotsPerDay - 1)]
      \cup [fn : {"merge"}, df : SeqsUpTo(Rows, MaxRows)]
      \cup { c \in [fn : {"_download"}, dest : DestinationArgs,
                    a : ArchiveUrlSpace, b : ArchiveUrlSpace] : c.a # c.b }
      \cup { c \in [fn : {"__download"}, dest : DestinationArgs,
                    a : WindowStarts, b : WindowStarts] : c.a # c.b }

\* The downloader is left unconstructed; one helper call is chosen.
FnInit ==
    /\ data_type_arg = "trading"
    /\ destination_arg = << <<".">> >>
    /\ max_workers = 1
    /\ _data_type = "unset"
    /\ _destination_dir = << >>
    /\ mainPc = "new"
    /\ mode = "none"
    /\ runs = 0
    /\ raised = "none"
    /\ tasks = << >>
    /\ chunk = 0
    /\ queue = << >>
    /\ pc = << >>
    /\ resp = << >>
    /\ result = << >>
    /\ calls = << >>
    /\ log = << >>
    /\ files = << >>
    /\ dirs = {}
    /\ faults = 0
    /\ bad_pages = {}
    /\ call \in FnCalls
    /\ ret = NoRet
    /\ ApiIdle

Return(value) ==
    /\ ~ret.done
    /\ ret' = [done |-> TRUE, value |-> value]
    /\ UNCHANGED <<argVars, apiVars, call, selfVars, mainPc, mode, runs, raised, tasks,
                   chunk, queue, pc, resp, result, calls, log, files, dirs,
                   faults, bad_pages>>

ApplyMakeChunks ==
    /\ call.fn = "make_chunks"
    /\ Return(make_chunks(call.lst, call.n))

ApplyGenerateDates ==
    /\ call.fn = "generate_dates_until_today"
    /\ Return(FundingWindows(call.today))

ApplyMerge ==
    /\ call.fn = "merge"
    /\ \E merged \in MergeResults(call.df) : Return(merged)

ApplyDownloadTargets ==
    /\ call.fn = "_download"
    /\ Return(<<DownloadTargets(call.dest, call.a), DownloadTargets(call.dest, call.b)>>)

ApplyKlineTargets ==
    /\ call.fn = "__download"
    /\ Return(<<KlineTargets(call.dest, call.a), KlineTargets(call.dest, call.b)>>)

FnNext ==
    \/ ApplyMakeChunks
    \/ ApplyGenerateDates
    \/ ApplyMerge
    \/ ApplyDownloadTargets
    \/ ApplyKlineTargets

FnSpec == FnInit /\ [][FnNext]_vars

\* ------------------------------------------- the API-driven paths of a run

\* The USDT symbols get_tickers(category="linear") returns
Symbols == <<"BTCUSDT", "ETHUSDT">>

\* Start time of the first bar the exchange has of a symbol, in minutes from
\* 2019-01-01 00:00: the first day for BTCUSDT, the second day for ETHUSDT
ListingTime(symbol) == IF symbol = "BTCUSDT" THEN 60 ELSE 1440 + 60

\* datetime.today() of the kline runs, in minutes from 2019-01-01 00:00
KlineToday == MaxDays * 1440

\* datetime.today() of the funding-rate runs, in slots from 2021-01-01 00:00
FundingToday == MaxNowDays * SlotsPerDay - 1

\* klines_category, at its default
_klines_category == "linear"

\* interval arguments of run_download: the default, one-minute bars, and
\* hourly bars
Intervals == {"1", "60"}

\* __convert_to_int_interval(interval), for the intervals above
__convert_to_int_interval(iv) == IF iv = "1" THEN 1 ELSE 60

Symbol == s_list[sym]

DataTypeApiArgs == {"fundingRate", "klines"}

ApiInit ==
    /\ data_type_arg \in DataTypeApiArgs
    /\ destination_arg \in DestinationArgs
    /\ max_workers \in 1..MaxWorkers
    /\ _data_type = "unset"
    /\ _destination_dir = << >>
    /\ mainPc = "new"
    /\ mode = "none"
    /\ runs = 0
    /\ raised = "none"
    /\ tasks = << >>
    /\ chunk = 0
    /\ queue = << >>
    /\ pc = << >>
    /\ resp = << >>
    /\ result = << >>
    /\ calls = << >>
    /\ log = << >>
    /\ files = << >>
    /\ dirs = Ancestors(destination_arg)
    /\ faults = 0
    /\ bad_pages = {}
    /\ call = NoCall
    /\ ret = NoRet
    /\ ApiIdle

\* An exception leaves run_download: the run is over
Abort(exc) ==
    /\ faults < MaxFaults
    /\ faults' = faults + 1
    /\ raised' = exc
    /\ mainPc' = "idle"

\* run_download() for fundingRate and klines, up to the symbol loop:
\* get_tickers gives s_list, or raises; _download_fundingrate then makes its
\* directory
RunApi ==
    /\ mainPc = "idle"
    /\ runs < MaxRuns
    /\ _data_type \in DataTypeApiArgs
    /\ mode' = "api"
    /\ runs' = runs + 1
    /\ chunk' = 0
    /\ ResetTasks(<< >>, "new", {})
    /\ bad_pages' = {}
    /\ listing' = {}
    /\ df' = {}
    /\ \E iv \in Intervals : interval' = iv
    /\ \/ /\ s_list' = Symbols
          /\ sym' = 1
          /\ raised' = "none"
          /\ IF _data_type = "fundingRate"
                THEN /\ dirs' = dirs \cup Ancestors(FundingDir(_destination_dir))
                     /\ mainPc' = "funding"
                     /\ win' = 1
                ELSE /\ mainPc' = "sync"
                     /\ win' = 0
                     /\ UNCHANGED dirs
          /\ UNCHANGED faults
       \/ /\ Abort("FailedRequestError")
          /\ s_list' = << >>
          /\ sym' = 0
          /\ win' = 0
          /\ UNCHANGED dirs
    /\ UNCHANGED <<argVars, fnVars, selfVars, files>>

\* One get_funding_rate_history call of the window loop: its rows are added
\* to df, or the exception it raises leaves run_download
FundingCall ==
    /\ mainPc = "funding"
    /\ \/ /\ df' = df \cup {win}
          /\ IF win < Len(FundingWindows(FundingToday))
                THEN win' = win + 1 /\ UNCHANGED mainPc
                ELSE mainPc' = "funding_save" /\ UNCHANGED win
          /\ UNCHANGED <<raised, faults>>
       \/ /\ Abort("FailedRequestError")
          /\ UNCHANGED <<win, df>>
    /\ UNCHANGED <<argVars, fnVars, selfVars, bad_pages, mode, runs, tasks, chunk,
                   queue, pc, resp, result, calls, log, files, dirs, s_list, sym,
                   listing,
                   interval>>

\* df.to_csv(".../fundingRate/{sym}.csv"), then the next symbol
FundingSave ==
    /\ mainPc = "funding_save"
    /\ files' = Put(files, FundingPath(_destination_dir, Symbol), Csv(df))
    /\ df' = {}
    /\ sym' = sym + 1
    /\ win' = 1
    /\ mainPc' = IF sym < Len(s_list) THEN "funding" ELSE "idle"
    /\ UNCHANGED <<argVars, fnVars, selfVars, bad_pages, mode, runs, raised, tasks,
                   chunk, queue, pc, resp, result, calls, log, dirs, faults,
                   s_list, listing,
                   interval>>

\* _download_klines(symbol): the symbol's directory is made if it is missing
KlineEnter ==
    /\ mainPc = "sync"
    /\ dirs' = dirs \cup Ancestors(KlineDir(_destination_dir, _klines_category, Symbol))
    /\ mainPc' = "initial"
    /\ UNCHANGED <<argVars, fnVars, apiVars, selfVars, bad_pages, mode, runs, raised,
                   tasks, chunk, queue, pc, resp, result, calls, log, files,
                   faults>>

\* __download(datetime(2019, 1, 1)) in the calling thread: the first bars of
\* the symbol are saved, or the exception of get_kline leaves run_download
KlineInitial ==
    /\ mainPc = "initial"
    /\ \/ /\ files' = Put(files,
                          SavePath(_destination_dir, _klines_category, Symbol, 0),
                          Csv({ListingTime(Symbol)}))
          /\ mainPc' = "plan"
          /\ UNCHANGED <<raised, faults>>
       \/ /\ Abort("FailedRequestError")
          /\ UNCHANGED files
    /\ UNCHANGED <<argVars, fnVars, apiVars, selfVars, bad_pages, mode, runs, tasks,
                   chunk, queue, pc, resp, result, calls, log, dirs>>

\* The files os.listdir(dir) returns
ListDir(dir) == {p \in DOMAIN files : DirName(p) = dir}

\* sorted(paths)[0] in a symbol's directory: "1.csv" sorts before the
\* ten-digit timestamps, these sort by value, and "60.csv" sorts after them
FirstSorted(paths, symbol) ==
    IF MergedPath(_destination_dir, _klines_category, symbol, "1") \in paths
        THEN MergedPath(_destination_dir, _klines_category, symbol, "1")
    ELSE SavePath(_destination_dir, _klines_category, symbol,
            CHOOSE t \in 0..KlineToday :
                /\ SavePath(_destination_dir, _klines_category, symbol, t) \in paths
                /\ \A u \in 0..(t - 1) :
                     SavePath(_destination_dir, _klines_category, symbol, u) \notin paths)

\* df_init["startTime"].iloc[0] of a file: its earliest row
FirstStartTime(path) ==
    CHOOSE t \in files[path].data : \A u \in files[path].data : t <= u

\* start_date is read from the first file of the directory, and the window
\* start times from it to today become the tasks of the symbol
KlinePlan ==
    /\ mainPc = "plan"
    /\ LET dir == KlineDir(_destination_dir, _klines_category, Symbol)
           start_date == FirstStartTime(FirstSorted(ListDir(dir), Symbol))
           starts == generate_dates_by_minutes_limited(
                         start_date, __convert_to_int_interval(interval) * KlineLimit,
                         KlineToday)
       IN  ResetTasks([i \in 1..Len(starts) |->
                          [symbol |-> Symbol, start_time |-> starts[i]]],
                      "new", {})
    /\ mainPc' = "submit"
    /\ chunk' = 1
    /\ UNCHANGED <<argVars, fnVars, apiVars, selfVars, bad_pages, mode, runs, raised,
                   files, dirs, faults>>

\* The end of a with block of _download_klines: wait for the chunk, then go
\* on with the next chunk or with the merge
KlineExit ==
    /\ mainPc = "wait"
    /\ ChunkSettled(chunk)
    /\ IF chunk < Len(Chunks)
          THEN mainPc' = "submit" /\ chunk' = chunk + 1
          ELSE mainPc' = "merge" /\ UNCHANGED chunk
    /\ UNCHANGED <<argVars, fnVars, apiVars, selfVars, bad_pages, mode, runs, raised,
                   tasks, queue, pc, resp, result, calls, log, files, dirs,
                   faults>>

\* A worker thread takes the next window of the queue: __download starts
KlineStart(t) ==
    /\ queue # << >>
    /\ t = Head(queue)
    /\ Cardinality(Running) < max_workers
    /\ queue' = Tail(queue)
    /\ Step(t, "get")
    /\ UNCHANGED <<argVars, fnVars, apiVars, selfVars, bad_pages, mode, runs, tasks,
                   chunk, resp, calls, log, files, dirs, faults>>

\* get_kline of a window: its rows, or an exception that ends the task
KlineFetch(t) ==
    /\ pc[t] = "get"
    /\ \/ /\ Step(t, "write")
          /\ UNCHANGED faults
       \/ /\ faults < MaxFaults
          /\ faults' = faults + 1
          /\ Settle(t, "FailedRequestError")
    /\ UNCHANGED <<argVars, fnVars, apiVars, selfVars, bad_pages, mode, runs, tasks,
                   chunk, queue, resp, calls, log, files, dirs>>

\* df_tmp.to_csv(save_path): the window's file is written
KlineSave(t) ==
    /\ pc[t] = "write"
    /\ files' = Put(files,
                    SavePath(_destination_dir, _klines_category, tasks[t].symbol,
                             tasks[t].start_time),
                    Csv({tasks[t].start_time}))
    /\ Settle(t, "none")
    /\ UNCHANGED <<argVars, fnVars, apiVars, selfVars, bad_pages, mode, runs, tasks,
                   chunk, queue, resp, calls, log, dirs, faults>>

\* The merge begins: os.listdir of the symbol's directory
KlineMergeStart ==
    /\ mainPc = "merge"
    /\ listing' = ListDir(KlineDir(_destination_dir, _klines_category, Symbol))
    /\ df' = {}
    /\ mainPc' = "merge_read"
    /\ UNCHANGED <<argVars, fnVars, selfVars, bad_pages, mode, runs, raised, tasks,
                   chunk, queue, pc, resp, result, calls, log, files, dirs,
                   faults, s_list, sym, win,
                   interval>>

\* One turn of the merge loop: read_csv, concat, os.remove
KlineMergeRead(path) ==
    /\ mainPc = "merge_read"
    /\ path \in listing
    /\ df' = df \cup files[path].data
    /\ files' = Remove(files, path)
    /\ listing' = listing \ {path}
    /\ UNCHANGED <<argVars, fnVars, selfVars, bad_pages, mainPc, mode, runs, raised,
                   tasks, chunk, queue, pc, resp, result, calls, log, dirs,
                   faults, s_list, sym, win,
                   interval>>

\* df.to_csv(".../{interval}.csv"): _download_klines returns, run_download
\* goes on with the next symbol
KlineMergeWrite ==
    /\ mainPc = "merge_read"
    /\ listing = {}
    /\ files' = Put(files,
                    MergedPath(_destination_dir, _klines_category, Symbol, interval),
                    Csv(df))
    /\ df' = {}
    /\ sym' = sym + 1
    /\ mainPc' = IF sym < Len(s_list) THEN "sync" ELSE "idle"
    /\ UNCHANGED <<argVars, fnVars, selfVars, bad_pages, mode, runs, raised, tasks,
                   chunk, queue, pc, resp, result, calls, log, dirs, faults,
                   s_list, win, listing,
                   interval>>

ApiNext ==
    \/ Construct
    \/ RunApi
    \/ FundingCall
    \/ FundingSave
    \/ KlineEnter
    \/ KlineInitial
    \/ KlinePlan
    \/ SubmitChunk
    \/ KlineExit
    \/ \E t \in Tasks : KlineStart(t)
    \/ \E t \in Tasks : KlineFetch(t)
    \/ \E t \in Tasks : KlineSave(t)
    \/ KlineMergeStart
    \/ \E path \in listing : KlineMergeRead(path)
    \/ KlineMergeWrite

ApiSpec == ApiInit /\ [][ApiNext]_vars

\* ----------------------------------------------------------------- claims

\* The local layout the specification gives for an archive URL
\* {base}/{data_type}/{symbol}[/{year}]/{filename}.csv.gz :
\* {destination_dir}/bybit_data/{data_type}/{symbol}[/{year}]/{filename}.csv.gz
\* for the compressed intermediate, and the same without the trailing ".gz"
\* for the output.
Hierarchy(url) == SubSeq(url, Len(_BYBIT_DATA_DOWNLOAD_BASE_URL) + 1, Len(url))

CanonicalIntermediate(t) ==
    _destination_dir \o << <<"bybit_data">> >> \o Hierarchy(tasks[t])

StripGzSuffix(name) ==
    IF name # << >> /\ name[Len(name)] = ".gz"
        THEN SubSeq(name, 1, Len(name) - 1) ELSE name

CanonicalOutput(t) ==
    LET h == Hierarchy(tasks[t])
    IN  _destination_dir \o << <<"bybit_data">> >> \o SubSeq(h, 1, Len(h) - 1)
            \o << StripGzSuffix(h[Len(h)]) >>

Started(t) == pc[t] \in ActivePcs \cup SettledPcs

RunEnded == mode = "run" /\ mainPc = "idle"

\* C1: batch barrier. Whenever a task of a later batch has started, every
\* task of every earlier batch has settled, as "done" or as "failed".
C1_BatchBarrier ==
    \A j \in 1..Len(Chunks) : \A k \in 1..Len(Chunks) :
        (j < k /\ \E u \in ChunkTasks(k) : Started(u))
            => \A t \in ChunkTasks(j) : pc[t] \in SettledPcs

\* A task of the second batch is running after a first batch in which one
\* task failed and another succeeded.
C1_Witness ==
    /\ Len(Chunks) >= 2
    /\ \E u \in ChunkTasks(2) : pc[u] \in ActivePcs
    /\ \E t \in ChunkTasks(1) : pc[t] = "failed"
    /\ \E t \in ChunkTasks(1) : pc[t] = "done"

\* C2: the number of tasks that have started and not yet settled never
\* exceeds the batch size.
C2_InFlightBound == Cardinality(Running) <= _CHUNK_SIZE

\* A full batch is in flight while more items than one batch holds exist.
C2_Witness == Cardinality(Running) = _CHUNK_SIZE /\ Len(tasks) > _CHUNK_SIZE

\* The decompressed output of task t's URL is already in place
OutputPresent(t) ==
    /\ CanonicalOutput(t) \in DOMAIN files
    /\ files[CanonicalOutput(t)] = Plain(ContentOf(tasks[t]))

\* C3: skip-if-present. A step of a task that has not yet written anything
\* itself, taken while the decompressed output of its URL already exists at
\* the canonical path, issues no GET and changes no file.
C3_SkipIfPresent ==
    [][\A t \in Tasks :
          (/\ pc[t] \in {"check_dir", "make_dir", "get", "write"}
           /\ OutputPresent(t)
           /\ pc'[t] # pc[t])
              => Len(calls'[t]) = Len(calls[t]) /\ files' = files]_vars

\* C4: failure isolation. When a run over a non-empty URL list has ended,
\* it has not raised, every task of every batch has settled by itself, and
\* every task whose GET returned a complete archive has ended normally with
\* its output in place, whatever happened to the other tasks.
C4_FailureIsolation ==
    (RunEnded /\ tasks # << >>)
        => /\ raised = "none"
           /\ \A t \in Tasks : pc[t] \in SettledPcs
           /\ \A t \in Tasks :
                IsGood(resp[t])
                    => /\ pc[t] = "done"
                       /\ CanonicalOutput(t) \in DOMAIN files
                       /\ files[CanonicalOutput(t)] = Plain(ContentOf(tasks[t]))

\* A run has ended in which one task of the first, full batch got a 404 and
\* failed, and every other task, of that batch and of the next, succeeded.
C4_Witness ==
    /\ RunEnded
    /\ Len(Chunks) >= 2
    /\ Len(Chunks[1]) = _CHUNK_SIZE
    /\ \E t \in ChunkTasks(1) :
          /\ resp[t].status = 404
          /\ pc[t] = "failed"
          /\ \A u \in Tasks \ {t} : pc[u] = "done"

\* The lines _download prints while it makes progress
ProgressLines ==
    {"Downloading: url", "Downloading: filepath", "Unzipped: filepath",
     "Deleted: filepath"}

\* Task t was surfaced as a failure: run_download raised, or a line that is
\* no progress line was printed for it.
Reported(t) == raised # "none" \/ log[t] \ ProgressLines # {}

\* C5: when a run has ended, every task that failed has been reported as a
\* failure.
C5_FailuresReported ==
    RunEnded => \A t \in Tasks : pc[t] = "failed" => Reported(t)

\* The data types the specification and the tests call supported
SupportedDataTypes == _DATA_TYPE \cup {"spot"}

\* C6: once the constructor has returned without raising ValueError, the
\* data type it was given is a supported one.
C6_InvalidDataTypeRejected ==
    (mainPc = "idle" /\ runs = 0)
        => \/ data_type_arg \in SupportedDataTypes /\ _data_type = data_type_arg
           \/ raised = "ValueError"

\* C7: after a successful fetch the canonical output holds exactly the
\* content whose gzip archive was received, and the intermediate is gone.
C7_RoundTrip ==
    \A t \in Tasks :
        pc[t] = "done"
            => /\ resp[t].body = Gzip(ContentOf(tasks[t]))
               /\ CanonicalOutput(t) \in DOMAIN files
               /\ files[CanonicalOutput(t)] = Plain(ContentOf(tasks[t]))
               /\ CanonicalIntermediate(t) \notin DOMAIN files

\* A fetch has succeeded.
C7_Witness ==
    \E t \in Tasks : pc[t] = "done" /\ IsGood(resp[t])

\* C8: path mapping. A task never issues more than one GET, a task that
\* got a response issued exactly one, with its URL as the target, and a
\* task that succeeded left its output at
\* {destination_dir}/bybit_data/{data_type}/{symbol}[/{year}]/{filename}.csv
C8_PathMapping ==
    \A t \in Tasks :
        /\ Len(calls[t]) <= 1
        /\ pc[t] \in {"write", "decompress", "remove", "done"}
              => Len(calls[t]) = 1 /\ calls[t][1].url = tasks[t]
        /\ pc[t] = "done" => CanonicalOutput(t) \in DOMAIN files

\* A kline_for_metatrader4 archive, with its year level, has been fetched
\* and its output lies under .../{symbol}/{year}/.
C8_Witness ==
    \E t \in Tasks :
        /\ pc[t] = "done"
        /\ Len(Hierarchy(tasks[t])) = 4
        /\ LET out == CanonicalOutput(t)
           IN  /\ out \in DOMAIN files
               /\ out[Len(out) - 1] \in {<<"2022">>, <<"2023">>}
               /\ out[Len(out) - 3] = <<"kline_for_metatrader4">>

\* C9: a task whose GET returned a non-2xx status ends in an error without
\* having written the body: neither the intermediate nor the output exists.
C9_Non2xxIsFatal ==
    \A t \in Tasks :
        (resp[t].status = 404 /\ pc[t] \in SettledPcs)
            => /\ pc[t] = "failed"
               /\ CanonicalIntermediate(t) \notin DOMAIN files
               /\ CanonicalOutput(t) \notin DOMAIN files

\* C10: a task that failed in decompression leaves neither the compressed
\* intermediate nor a partial output behind.
C10_DecompressionCleanup ==
    \A t \in Tasks :
        (pc[t] = "failed" /\ result[t] \in {"EOFError", "BadGzipFile"})
            => /\ CanonicalIntermediate(t) \notin DOMAIN files
               /\ CanonicalOutput(t) \notin DOMAIN files

\* C11: directory-creation races are tolerated. No task ends with the
\* FileExistsError of os.makedirs, whatever the interleaving of the
\* existence checks and the creations of the tasks of a batch.
C11_MakedirsRaceTolerated ==
    \A t \in Tasks : result[t] # "FileExistsError"

\* The walk of the current run is over and its list was handed over
WalkDone ==
    /\ mode = "run"
    /\ \/ mainPc \in {"submit", "wait"}
       \/ mainPc = "idle" /\ raised = "none"

\* C13: listing is all-or-nothing. When a listing page of the walk was
\* answered with a non-success status, the run has raised and no task of a
\* partial URL list exists, let alone has started.
C13_ListingAllOrNothing ==
    bad_pages # {} => raised # "none" /\ tasks = << >>

\* C17: a direct download(url) whose GET raised has raised that same error
\* to its caller, and nothing after the GET was done: no response was
\* assigned, the "Unzipped" and "Deleted" steps were not reached.
C17_DirectErrorPropagates ==
    (mode = "direct" /\ Len(tasks) = 1 /\ result[1] = "ConnectionError")
        => /\ raised = "ConnectionError"
           /\ mainPc = "idle"
           /\ pc[1] = "failed"
           /\ Len(calls[1]) = 1
           /\ resp[1] = NoResponse
           /\ log[1] = {"Downloading: url", "Downloading: filepath"}

\* A direct call has ended with the connection error of its GET.
C17_Witness ==
    /\ mode = "direct"
    /\ Len(tasks) = 1
    /\ result[1] = "ConnectionError"
    /\ mainPc = "idle"

\* The archive URLs of the kline_for_metatrader4 tree: root + symbol + year
\* + filename for every symbol, every year folder of it and every file
\* listed in that folder
Mt4Urls ==
    LET url == RootUrl("kline_for_metatrader4")
        syms == Anchors(url)
    IN  UNION { UNION { { url \o << syms[i], Anchors(url \o << syms[i] >>)[j],
                                   Anchors(url \o << syms[i],
                                       Anchors(url \o << syms[i] >>)[j] >>)[k] >> :
                            k \in 1..Len(Anchors(url \o << syms[i],
                                       Anchors(url \o << syms[i] >>)[j] >>)) } :
                        j \in 1..Len(Anchors(url \o << syms[i] >>)) } :
                i \in 1..Len(syms) }

\* C18: for kline_for_metatrader4 a walk whose pages all answered emits
\* exactly the (symbol, year, filename) URLs of the remote tree.
C18_Mt4WalkExact ==
    (WalkDone /\ _data_type = "kline_for_metatrader4" /\ bad_pages = {})
        => {tasks[t] : t \in Tasks} = Mt4Urls

\* C12: make_chunks(lst, n) returns chunks of exactly n items except possibly
\* the last, which holds len(lst) mod n items (n when n divides len(lst));
\* no chunk is empty and the chunks concatenated in order are lst.
C12_MakeChunksPartition ==
    (call.fn = "make_chunks" /\ ret.done) =>
        LET chunks == ret.value
            last == IF Len(call.lst) % call.n = 0 THEN call.n
                    ELSE Len(call.lst) % call.n
        IN  /\ \A k \in 1..(Len(chunks) - 1) : Len(chunks[k]) = call.n
            /\ Len(chunks) > 0 => Len(chunks[Len(chunks)]) = last
            /\ \A k \in 1..Len(chunks) : chunks[k] # << >>
            /\ Flatten(chunks) = call.lst

\* make_chunks has returned several chunks, the last one short
C12_Witness ==
    /\ call.fn = "make_chunks" /\ ret.done
    /\ Len(ret.value) > 2
    /\ Len(call.lst) % call.n # 0

\* C14: the funding-rate windows of a symbol are ordered, pairwise disjoint
\* and cover every instant from the start date to now.
C14_WindowsCoverHistory ==
    (call.fn = "generate_dates_until_today" /\ ret.done) =>
        LET w == ret.value
        IN  /\ \A i \in 1..Len(w) : w[i].startTime <= w[i].endTime
            /\ \A i \in 1..(Len(w) - 1) : w[i].endTime < w[i + 1].startTime
            /\ \A instant \in 0..call.today :
                 \E i \in 1..Len(w) :
                    w[i].startTime <= instant /\ instant <= w[i].endTime

\* C15: the merged kline output has one row per distinct startTime, ascending
\* by startTime, and of the rows sharing a startTime the one processed last
\* is kept.
OneRowPerStartTime(frame, merged) ==
    /\ {merged[i].startTime : i \in 1..Len(merged)}
         = {frame[i].startTime : i \in 1..Len(frame)}
    /\ \A i, j \in 1..Len(merged) :
         i < j => merged[i].startTime < merged[j].startTime

LastProcessed(frame, key) ==
    frame[CHOOSE i \in 1..Len(frame) :
          /\ frame[i].startTime = key
          /\ \A j \in (i + 1)..Len(frame) : frame[j].startTime # key]

C15_LastWriteWins ==
    (call.fn = "merge" /\ ret.done) =>
        /\ OneRowPerStartTime(call.df, ret.value)
        /\ \A i \in 1..Len(ret.value) :
             ret.value[i] = LastProcessed(call.df, ret.value[i].startTime)

\* C19: two tasks of one batch with distinct inputs (archive URLs under one
\* root, or kline window start times) write disjoint sets of paths.
C19_UniqueWriteTargets ==
    (call.fn \in {"_download", "__download"} /\ ret.done) =>
        ret.value[1] \cap ret.value[2] = {}

\* two archives with one file name under different symbols
C19_Witness ==
    /\ call.fn = "_download" /\ ret.done
    /\ call.a[Len(call.a)] = call.b[Len(call.b)]
    /\ Cardinality(ret.value[1] \cup ret.value[2]) = 4

\* The output file of a symbol in the API-driven paths
ApiOutput(symbol) ==
    IF _data_type = "fundingRate"
        THEN FundingPath(_destination_dir, symbol)
        ELSE MergedPath(_destination_dir, _klines_category, symbol, interval)

\* C16: in the fundingRate and klines paths a failed API call for a window
\* or a symbol does not end the run: once run_download is over, every symbol
\* of the run has its output file.
C16_ApiFailureIsolated ==
    (mode = "api" /\ mainPc = "idle" /\ s_list # << >>) =>
        \A i \in 1..Len(s_list) : ApiOutput(s_list[i]) \in DOMAIN files

\* The symbols whose _download_klines has returned in the current run
Synced == IF mode = "api" /\ _data_type = "klines" THEN 1..(sym - 1) ELSE {}

\* C20: the merge of a symbol runs only when every window task of every
\* batch has settled, and once _download_klines has returned the symbol's
\* directory holds the merged file {interval}.csv and nothing else.
C20_MergeAfterWindows ==
    /\ mainPc \in {"merge", "merge_read"} =>
         \A t \in Tasks : pc[t] \in SettledPcs
    /\ \A i \in Synced :
         ListDir(KlineDir(_destination_dir, _klines_category, s_list[i]))
            = { MergedPath(_destination_dir, _klines_category, s_list[i], interval) }

\* a symbol with two batches has been merged from several window files
C20_Witness ==
    /\ Synced # {}
    /\ Len(Chunks) > 1
    /\ sym = 2
    /\ Cardinality(files[MergedPath(_destination_dir, _klines_category,
                                    s_list[1], interval)].data) > 2

\* The merged files of the intervals other than iv that the symbols'
\* directories hold
OtherMerged(iv) ==
    { MergedPath(_destination_dir, _klines_category, Symbols[i], other) :
        i \in 1..Len(Symbols), other \in Intervals \ {iv} } \cap DOMAIN files

\* C21: a kline sync for an interval changes only its own intermediates and
\* its own {interval}.csv: a merged file of another interval that is in the
\* symbol's directory is neither deleted nor changed by any step of the run.
C21_OtherIntervalKept ==
    [][(mode' = "api" /\ _data_type = "klines") =>
          \A path \in OtherMerged(interval') :
             path \in DOMAIN files' /\ files'[path] = files[path]]_vars

\* A path with the trailing ".gz" of its file name removed
WithoutGzSuffix(path) ==
    DirName(path) \o << StripGzSuffix(path[Len(path)]) >>

\* C22: for every URL passed to download(url) the output path is the
\* intermediate path without its trailing ".gz" and differs from the
\* intermediate, so that the output of a task that ended normally is on disk
\* after the intermediate was deleted.
C22_OutputBesideIntermediate ==
    \A t \in Tasks :
        (mode = "direct" /\ Started(t)) =>
            /\ outpath(t) = WithoutGzSuffix(filepath(t))
            /\ outpath(t) # filepath(t)
            /\ pc[t] = "done" => outpath(t) \in DOMAIN files

====
